---- MODULE Spec2Model ----
(***************************************************************************)
(* gojsonnet: the Rust wrapper around the go-jsonnet C API (src/src/lib.rs) *)
(*                                                                         *)
(* A Vm owns an interpreter handle and the heap-allocated callback holders *)
(* whose addresses it hands to the interpreter as callback contexts.  The  *)
(* interpreter itself (libjsonnet's C API) is not part of src/: it is      *)
(* modelled from the specification and from the doc-tests of lib.rs, and   *)
(* every definition of it is named Jsonnet... or jsonnet_... below.        *)
(*                                                                         *)
(* Strings are sequences of chunks (each chunk a run of bytes); the chunk  *)
(* NUL is the single byte 0 and the chunk INVALID is a byte sequence that  *)
(* is not UTF-8.  Rust &str / String values never hold INVALID.            *)
(***************************************************************************)
EXTENDS Integers, Sequences, FiniteSets, TLC

VARIABLES
    vms,      \* [VmIds -> Vm]: struct Vm { inner, native_callback_holders, import_callback_holder }
    heap,     \* sequence of holder cells; a pointer is an index (Box::into_raw / Box::from_raw)
    interp,   \* sequence of interpreter states; a *mut JsonnetVm is an index (jsonnet_make)
    last,     \* what the most recent call did: its arguments, its FFI calls, its result
    aborted,  \* the process has aborted (a panic inside an extern "C" bridge)
    steps,    \* number of API calls made so far
    bound     \* history: per Vm and key, the most recent ext_var / ext_code that returned Ok

vars == <<vms, heap, interp, last, aborted, steps, bound>>

-----------------------------------------------------------------------------
(* Bounds of the model *)

MaxOps == 3        \* API calls per behaviour, after the first Vm::new
MaxVms == 2        \* Vm instances
MaxArgs == 2       \* arguments of a native call in the bridge specification

VmIds == 1..MaxVms

-----------------------------------------------------------------------------
(* Strings *)

NUL == "NUL"
INVALID == "INVALID"
REPLACEMENT == "U+FFFD"

HasNul(s) == \E i \in DOMAIN s : s[i] = NUL

\* What a reader of a char* sees: the bytes before the first 0 (CStr::from_ptr
\* on the Rust side, the interpreter's own reading on the other side).
RECURSIVE CStrFromPtr(_)
CStrFromPtr(buf) ==
    IF buf = <<>> \/ Head(buf) = NUL THEN <<>>
    ELSE <<Head(buf)>> \o CStrFromPtr(Tail(buf))

\* a conversion that cuts the string at its first 0 byte instead of failing
CStringNewTruncating(s) == [ok |-> TRUE, bytes |-> CStrFromPtr(s) \o <<NUL>>]
\* std::ffi::CString::new(s): Err(NulError) on an interior 0 byte, else the
\* bytes followed by the terminator.
CStringNew(s) ==
    IF HasNul(s) THEN [ok |-> FALSE, bytes |-> <<>>]
                 ELSE [ok |-> TRUE, bytes |-> s \o <<NUL>>]

\* CStr::to_string_lossy: invalid UTF-8 becomes U+FFFD, the rest is kept.
ToStringLossy(bytes) ==
    [i \in DOMAIN bytes |-> IF bytes[i] = INVALID THEN REPLACEMENT ELSE bytes[i]]

\* to_jsonnet_str: a buffer of len + 1 bytes, the str's bytes and a 0.
to_jsonnet_str(rust_str) == rust_str \o <<NUL>>

-----------------------------------------------------------------------------
(* JSON values: serde_json::Value on the Rust side, JsonnetJsonValue on the *)
(* interpreter's side.  One record shape for every kind.                   *)

JV(k, b, n, s, e) == [kind |-> k, b |-> b, n |-> n, s |-> s, elems |-> e]
JNull == JV("null", FALSE, 0, <<>>, <<>>)
JBool(b) == JV("bool", b, 0, <<>>, <<>>)
JNum(n) == JV("number", FALSE, n, <<>>, <<>>)
JStr(s) == JV("string", FALSE, 0, s, <<>>)
JArr(e) == JV("array", FALSE, 0, <<>>, e)
\* an object with one field: key s, value e[1]
JObj(k, v) == JV("object", FALSE, 0, k, <<v>>)

\* libjsonnet.h: jsonnet_json_extract_null returns 1 for null, else 0
jsonnet_json_extract_null(v) == IF v.kind = "null" THEN 1 ELSE 0
\* libjsonnet.h: jsonnet_json_extract_bool returns 0 (false), 1 (true), 2 (not a bool)
jsonnet_json_extract_bool(v) ==
    IF v.kind = "bool" THEN (IF v.b THEN 1 ELSE 0) ELSE 2
\* libjsonnet.h: jsonnet_json_extract_number returns 1 and writes *out for a number
jsonnet_json_extract_number(v) ==
    IF v.kind = "number" THEN [rc |-> 1, out |-> v.n] ELSE [rc |-> 0, out |-> 0]
\* libjsonnet.h: jsonnet_json_extract_string returns the char* of a string, else NULL
jsonnet_json_extract_string(v) ==
    IF v.kind = "string" THEN [null |-> FALSE, buf |-> v.s \o <<NUL>>]
                         ELSE [null |-> TRUE, buf |-> <<>>]

\* A conversion either yields a value or panics.
Converted(v) == [panic |-> FALSE, val |-> v]
Panicked == [panic |-> TRUE, val |-> JNull]

\* from_gojsonnet_value: null, bool, number, string in that order; the source
\* has no array or object arm ("XXX: array and object?"), so those fall
\* through to panic!("Unsupported value").
from_gojsonnet_value(value) ==
    IF jsonnet_json_extract_null(value) # 0 THEN Converted(JNull)
    ELSE IF jsonnet_json_extract_bool(value) = 0 THEN Converted(JBool(FALSE))
    ELSE IF jsonnet_json_extract_bool(value) = 1 THEN Converted(JBool(TRUE))
    ELSE IF jsonnet_json_extract_number(value).rc # 0
         THEN Converted(JNum(jsonnet_json_extract_number(value).out))
    ELSE IF ~jsonnet_json_extract_string(value).null
         THEN Converted(JStr(ToStringLossy(CStrFromPtr(jsonnet_json_extract_string(value).buf))))
    ELSE Panicked

\* from_serde_json_value on a value without elements; CString::new(s).unwrap()
\* panics on a 0 byte.
FromSerdeScalar(value) ==
    IF value.kind = "string"
    THEN (IF CStringNew(value.s).ok
          THEN Converted(JStr(CStrFromPtr(CStringNew(value.s).bytes)))
          ELSE Panicked)
    ELSE Converted(value)

\* from_serde_json_value: arrays element by element, objects field by field
\* (the key through CString::new(k).unwrap() as well).
from_serde_json_value(value) ==
    IF value.kind \in {"array", "object"}
    THEN LET parts == [i \in DOMAIN value.elems |-> FromSerdeScalar(value.elems[i])]
             keyOk == value.kind = "array" \/ CStringNew(value.s).ok
         IN  IF keyOk /\ \A i \in DOMAIN parts : ~parts[i].panic
             THEN Converted(JV(value.kind, FALSE, 0, value.s,
                               [i \in DOMAIN parts |-> parts[i].val]))
             ELSE Panicked
    ELSE FromSerdeScalar(value)

-----------------------------------------------------------------------------
(* Host callbacks.  A callback is a fn pointer; the model names a few.      *)

\* NativeCallback = fn(Vec<Value>) -> Option<Value>
\*   "hello": the doc-test's callback, "hello " + arg1 (None when arg1 is no string)
\*   "null":  Some(Value::Null)        "none": None
\*   "first": Some(argv[0])            "join": Some(arg1 + arg2) for two strings
\*   "list":  Some([1, 2])             "nulstr": Some("a\0b")
NativeCallbacks == {"hello", "null", "none", "first", "join", "list", "nulstr"}

Some(v) == [some |-> TRUE, val |-> v]
None == [some |-> FALSE, val |-> JNull]

CallNative(callback, argv) ==
    CASE callback = "hello" ->
            IF Len(argv) >= 1 /\ argv[1].kind = "string"
            THEN Some(JStr(<<"hello ">> \o argv[1].s)) ELSE None
      [] callback = "null" -> Some(JNull)
      [] callback = "none" -> None
      [] callback = "first" -> IF Len(argv) >= 1 THEN Some(argv[1]) ELSE None
      [] callback = "join" ->
            IF Len(argv) >= 2 /\ argv[1].kind = "string" /\ argv[2].kind = "string"
            THEN Some(JStr(argv[1].s \o argv[2].s)) ELSE None
      [] callback = "list" -> Some(JArr(<<JNum(1), JNum(2)>>))
      [] OTHER -> Some(JStr(<<"a", NUL, "b">>))

\* ImportCallback = fn(base, rel) -> Result<ImportedContent, String>
\*   "lib":  the doc-test's callback, Ok { found_here, content: "1 + 2" }
\*   "fail": Err("no such file: " + rel)
\*   "nulcontent" / "nulerr": the same with a 0 byte inside the content / message
ImportCallbacks == {"lib", "fail", "nulcontent", "nulerr"}

ImportOk(f, c) == [ok |-> TRUE, found_here |-> f, content |-> c, err |-> <<>>]
ImportErr(e) == [ok |-> FALSE, found_here |-> <<>>, content |-> <<>>, err |-> e]

CallImport(callback, base, rel) ==
    CASE callback = "lib" -> ImportOk(<<"import_callback.libsonnet">>, <<"1 + 2">>)
      [] callback = "fail" -> ImportErr(<<"no such file: ">> \o rel)
      [] callback = "nulcontent" -> ImportOk(<<"lib", NUL, ".libsonnet">>, <<"1", NUL, " + 2">>)
      [] OTHER -> ImportErr(<<"bad", NUL, "message">>)

-----------------------------------------------------------------------------
(* The bridges: the extern "C" functions the interpreter calls back.        *)

\* a holder that carries one fixed interpreter, whichever Vm makes it
NativeCallbackHolderShared(vm, callback, argc) ==
    [kind |-> "native", vm |-> 1, callback |-> callback, argc |-> argc]
NativeCallbackHolder(vm, callback, argc) ==
    [kind |-> "native", vm |-> vm, callback |-> callback, argc |-> argc]
ImportCallbackHolder(vm, callback) ==
    [kind |-> "import", vm |-> vm, callback |-> callback, argc |-> 0]

\* native_callback_bridge(ctx, argv_c, success).  pre is what *success holds
\* when the bridge is entered.  invoked/argv record the host callback's call.
native_callback_bridge(holder, argv_c, pre) ==
    LET argc == holder.argc
        conv == [i \in 1..argc |-> from_gojsonnet_value(argv_c[i])]
    IN  IF \E i \in 1..argc : conv[i].panic
        THEN [aborted |-> TRUE, invoked |-> FALSE, argv |-> <<>>, returned |-> None,
              success |-> pre, ret |-> JNull, vm |-> holder.vm]
        ELSE LET argv == [i \in 1..argc |-> conv[i].val]
                 r == CallNative(holder.callback, argv)
             IN  IF r.some
                 THEN [aborted |-> from_serde_json_value(r.val).panic,
                       invoked |-> TRUE, argv |-> argv, returned |-> r,
                       success |-> 1,
                       ret |-> from_serde_json_value(r.val).val, vm |-> holder.vm]
                 ELSE [aborted |-> FALSE, invoked |-> TRUE, argv |-> argv, returned |-> r,
                       success |-> pre,
                       ret |-> JNull, vm |-> holder.vm]

\* import_callback_bridge(ctx, base, rel, found_here, success).  pre is what
\* *success holds on entry, pre_found what *found_here holds on entry.
import_callback_bridge(holder, base_c, rel_c, pre, pre_found) ==
    LET base == ToStringLossy(CStrFromPtr(base_c))
        rel == ToStringLossy(CStrFromPtr(rel_c))
        r == CallImport(holder.callback, base, rel)
    IN  IF r.ok
        THEN [returned |-> r, success |-> 1,
              found_here |-> to_jsonnet_str(r.found_here),
              ret |-> to_jsonnet_str(r.content), vm |-> holder.vm]
        ELSE [returned |-> r, success |-> 0,
              found_here |-> pre_found,
              ret |-> to_jsonnet_str(r.err), vm |-> holder.vm]

-----------------------------------------------------------------------------
(* The interpreter behind the C API (libjsonnet), modelled from the          *)
(* specification and the doc-tests: its configuration, and what evaluating  *)
(* a handful of snippets yields.                                            *)

EmptyMap == [k \in {} |-> 0]
Put(m, k, v) == (k :> v) @@ m

\* jsonnet_make: a fresh interpreter with the library's defaults (the
\* formatter defaults are the ones the fmt_snippet doc-test shows).
jsonnet_make ==
    [alive |-> TRUE, max_stack |-> 500, ext |-> EmptyMap, tla |-> EmptyMap,
     jpath |-> <<>>, natives |-> EmptyMap, import_ctx |-> 0,
     fmt |-> [indent |-> 2, max_blank_lines |-> 2, string |-> 115, comment |-> 115,
              pad_arrays |-> 0, pad_objects |-> 1, pretty_field_names |-> 1,
              sort_imports |-> 1]]

jsonnet_destroy(I) == [I EXCEPT !.alive = FALSE]
jsonnet_max_stack(I, v) == [I EXCEPT !.max_stack = v]
jsonnet_ext_var(I, key_c, val_c) ==
    [I EXCEPT !.ext = Put(@, CStrFromPtr(key_c), [val |-> CStrFromPtr(val_c), code |-> FALSE])]
jsonnet_ext_code(I, key_c, val_c) ==
    [I EXCEPT !.ext = Put(@, CStrFromPtr(key_c), [val |-> CStrFromPtr(val_c), code |-> TRUE])]
jsonnet_tla_var(I, key_c, val_c) ==
    [I EXCEPT !.tla = Put(@, CStrFromPtr(key_c), [val |-> CStrFromPtr(val_c), code |-> FALSE])]
jsonnet_tla_code(I, key_c, val_c) ==
    [I EXCEPT !.tla = Put(@, CStrFromPtr(key_c), [val |-> CStrFromPtr(val_c), code |-> TRUE])]
jsonnet_jpath_add(I, path_c) == [I EXCEPT !.jpath = Append(@, CStrFromPtr(path_c))]
\* params_ptr is the NULL-terminated array of char*: its entries before the NULL.
jsonnet_native_callback(I, name_c, ctx, params_ptr) ==
    [I EXCEPT !.natives = Put(@, CStrFromPtr(name_c),
        [ctx |-> ctx,
         params |-> [i \in 1..(Len(params_ptr) - 1) |-> CStrFromPtr(params_ptr[i])]])]
jsonnet_import_callback(I, ctx) == [I EXCEPT !.import_ctx = ctx]
jsonnet_fmt_indent(I, n) == [I EXCEPT !.fmt.indent = n]
jsonnet_fmt_max_blank_lines(I, n) == [I EXCEPT !.fmt.max_blank_lines = n]
jsonnet_fmt_string(I, c) == [I EXCEPT !.fmt.string = c]
jsonnet_fmt_comment(I, c) == [I EXCEPT !.fmt.comment = c]
jsonnet_fmt_pad_arrays(I, v) == [I EXCEPT !.fmt.pad_arrays = v]
jsonnet_fmt_pad_objects(I, v) == [I EXCEPT !.fmt.pad_objects = v]
jsonnet_fmt_pretty_field_names(I, v) == [I EXCEPT !.fmt.pretty_field_names = v]
jsonnet_fmt_sort_imports(I, v) == [I EXCEPT !.fmt.sort_imports = v]

\* The expressions the model's interpreter knows, each one chunk of source.
Value(v) == [ok |-> TRUE, val |-> v]
NoValue == [ok |-> FALSE, val |-> JNull]
JsonnetExpr(src) ==
    IF Len(src) # 1 THEN NoValue
    ELSE CASE src[1] = "true" -> Value(JBool(TRUE))
           [] src[1] = "null" -> Value(JNull)
           [] src[1] = "1 + 2" -> Value(JNum(3))
           [] src[1] = "'world'" -> Value(JStr(<<"world">>))
           [] src[1] = "[1, 2]" -> Value(JArr(<<JNum(1), JNum(2)>>))
           [] OTHER -> NoValue

\* Manifestation: the JSON text of a value (elements of an array and the
\* field of an object are numbers, booleans or null in this model).
JsonnetScalarText(v) ==
    CASE v.kind = "null" -> "null"
      [] v.kind = "bool" -> IF v.b THEN "true" ELSE "false"
      [] OTHER -> ToString(v.n)
JsonnetManifest(v) ==
    CASE v.kind = "string" -> <<"\"">> \o v.s \o <<"\"">>
      [] v.kind = "array" ->
            <<"[">> \o [i \in DOMAIN v.elems |-> JsonnetScalarText(v.elems[i])] \o <<"]">>
      [] v.kind = "object" ->
            <<"{", "\"">> \o v.s \o <<"\"", ":", JsonnetScalarText(v.elems[1]), "}">>
      [] OTHER -> <<JsonnetScalarText(v)>>

Reply(err, text, bridge, abort) ==
    [err |-> err, out |-> text \o <<NUL>>, bridge |-> bridge, aborted |-> abort, T |-> ""]
NoBridge == [kind |-> "none"]
\* *success on entry to a bridge: the contract lets the caller leave anything there.
FlagValues == {0, 1}
JsonnetOutput(v, bridge) == Reply(0, JsonnetManifest(v) \o <<"\n">>, bridge, FALSE)
\* A static error's message starts with the file and the 1-based line; a
\* runtime error's message starts with RUNTIME ERROR and names them after.
JsonnetError(filename, what, bridge) ==
    Reply(1, filename \o <<":1:">> \o what \o <<"\n">>, bridge, FALSE)
JsonnetRuntimeError(filename, what, bridge) ==
    Reply(1, <<"RUNTIME ERROR: ">> \o what \o <<"\n\t">> \o filename \o <<":1:", "\n">>,
          bridge, FALSE)
JsonnetAbort(bridge) == Reply(1, <<>>, bridge, TRUE)

\* std.extVar(key): the bound string itself, or the value of the bound code.
JsonnetExtVar(I, filename, key) ==
    IF key \notin DOMAIN I.ext
    THEN JsonnetRuntimeError(filename, <<"Undefined external variable: ">> \o key, NoBridge)
    ELSE IF ~I.ext[key].code THEN JsonnetOutput(JStr(I.ext[key].val), NoBridge)
    ELSE IF JsonnetExpr(I.ext[key].val).ok
         THEN JsonnetOutput(JsonnetExpr(I.ext[key].val).val, NoBridge)
    ELSE JsonnetError(<<"<extvar:">> \o key \o <<">">>, <<"Unexpected token">>, NoBridge)

\* std.native(name)(args): the registered bridge is called once with the
\* registered context and the evaluated arguments.
JsonnetNative(I, hp, filename, name, args, pre) ==
    IF name \notin DOMAIN I.natives
    THEN JsonnetRuntimeError(filename, <<"Unexpected type null, expected function">>, NoBridge)
    ELSE IF Len(args) # Len(I.natives[name].params)
    THEN JsonnetRuntimeError(filename, <<"Function parameter count mismatch">>, NoBridge)
    ELSE IF \E i \in DOMAIN args : ~JsonnetExpr(<<args[i]>>).ok
    THEN JsonnetError(filename, <<"Unexpected token">>, NoBridge)
    ELSE LET ctx == I.natives[name].ctx
             argv_c == [i \in DOMAIN args |-> JsonnetExpr(<<args[i]>>).val]
             out == native_callback_bridge(hp[ctx].holder, argv_c, pre)
             b == [kind |-> "native", ctx |-> ctx, live |-> hp[ctx].state = "live",
                   argv_c |-> argv_c, pre |-> pre, out |-> out]
         IN  IF out.aborted THEN JsonnetAbort(b)
             ELSE IF out.success = 1 THEN JsonnetOutput(out.ret, b)
             ELSE JsonnetRuntimeError(filename, <<"native callback failed">>, b)

\* import 'rel': through the import callback when one is registered, else
\* the default search of the jpath (no file exists in the model).
JsonnetImport(I, hp, filename, rel, pre) ==
    IF I.import_ctx = 0
    THEN JsonnetRuntimeError(filename, <<"couldn't open import ">> \o rel, NoBridge)
    ELSE LET ctx == I.import_ctx
             out == import_callback_bridge(hp[ctx].holder, to_jsonnet_str(<<"">>),
                                           to_jsonnet_str(rel), pre, <<>>)
             b == [kind |-> "import", ctx |-> ctx, live |-> hp[ctx].state = "live",
                   rel |-> rel, pre |-> pre, out |-> out]
         IN  IF out.success # 1
             THEN JsonnetRuntimeError(filename, CStrFromPtr(out.ret), b)
             ELSE IF JsonnetExpr(CStrFromPtr(out.ret)).ok
             THEN JsonnetOutput(JsonnetExpr(CStrFromPtr(out.ret)).val, b)
             ELSE JsonnetError(CStrFromPtr(out.found_here), <<"Unexpected token">>, b)

\* jsonnet_evaluate_snippet(vm, filename, snippet, &err)
jsonnet_evaluate_snippet(I, hp, filename_c, code_c, pre) ==
    LET filename == CStrFromPtr(filename_c)
        code == CStrFromPtr(code_c)
        n == Len(code)
    IN  CASE code = <<"{foo: bar}">> ->
                JsonnetError(filename, <<"7-10 ", "Unknown variable", ": bar">>, NoBridge)
          [] n = 3 /\ code[1] = "std.extVar('" /\ code[3] = "')" ->
                JsonnetExtVar(I, filename, <<code[2]>>)
          [] n >= 4 /\ code[1] = "std.native('" /\ code[3] = "')(" /\ code[n] = ")" ->
                \* the arguments are every other chunk: f(a1 , a2)
                JsonnetNative(I, hp, filename, <<code[2]>>,
                              [i \in 1..((n - 3) \div 2) |-> code[2 + 2 * i]], pre)
          [] n = 3 /\ code[1] = "import '" /\ code[3] = "'" ->
                JsonnetImport(I, hp, filename, <<code[2]>>, pre)
          [] JsonnetExpr(code).ok -> JsonnetOutput(JsonnetExpr(code).val, NoBridge)
          [] OTHER -> JsonnetError(filename, <<"1 Unexpected token">>, NoBridge)

\* jsonnet_fmt_snippet(vm, filename, snippet, &err): {x:1} re-rendered under
\* the pad_objects option; anything else in the model is a syntax error.
jsonnet_fmt_snippet(I, filename_c, code_c) ==
    IF CStrFromPtr(code_c) = <<"{x:1}">>
    THEN Reply(0, (IF I.fmt.pad_objects # 0 THEN <<"{ x: 1 }">> ELSE <<"{x: 1}">>) \o <<"\n">>,
               NoBridge, FALSE)
    ELSE JsonnetError(CStrFromPtr(filename_c), <<"1 Unexpected token">>, NoBridge)

-----------------------------------------------------------------------------
(* Results of the wrapper: Result<T, Error>                                 *)

Res(kind, value, message) == [kind |-> kind, value |-> value, message |-> message]
Ok(value) == Res("Ok", value, <<>>)
GoJsonnetError(message) == Res("GoJsonnetError", JNull, message)
NulError == Res("NulError", JNull, <<>>)
SerdeError == Res("SerdeError", JNull, <<>>)
Abort == Res("Abort", JNull, <<>>)

\* #[error("go-jsonnet returned error: {message}")]
ErrorToString(r) == <<"go-jsonnet returned error: ">> \o r.message

\* serde_json::from_str::<T>: JSON text to a value, surrounding whitespace
\* skipped, then the value as a T ("Value" takes any, "String" a string,
\* "bool" a boolean, "unit" null).
StripNewlines(text) == SelectSeq(text, LAMBDA c : c # "\n")
NumberTexts == {ToString(n) : n \in 0..9}
ParseScalar(c) ==
    CASE c = "null" -> Value(JNull)
      [] c = "true" -> Value(JBool(TRUE))
      [] c = "false" -> Value(JBool(FALSE))
      [] c \in NumberTexts -> Value(JNum(CHOOSE n \in 0..9 : ToString(n) = c))
      [] OTHER -> NoValue
ParseJson(text) ==
    LET s == StripNewlines(text)
        n == Len(s)
    IN  CASE n = 1 -> ParseScalar(s[1])
          [] n >= 2 /\ s[1] = "\"" /\ s[n] = "\"" -> Value(JStr(SubSeq(s, 2, n - 1)))
          [] n >= 2 /\ s[1] = "[" /\ s[n] = "]" ->
                IF \A i \in 2..(n - 1) : ParseScalar(s[i]).ok
                THEN Value(JArr([i \in 1..(n - 2) |-> ParseScalar(s[i + 1]).val]))
                ELSE NoValue
          [] OTHER -> NoValue
DeserTypes == {"Value", "String"}
Fits(v, T) ==
    \/ T = "Value"
    \/ T = "String" /\ v.kind = "string"
    \/ T = "bool" /\ v.kind = "bool"
    \/ T = "unit" /\ v.kind = "null"
serde_json_from_str(text, T) ==
    IF ParseJson(text).ok /\ Fits(ParseJson(text).val, T)
    THEN Ok(ParseJson(text).val) ELSE SerdeError

\* StringStyle::as_i32 / CommentStyle::as_i32: the style's letter as a number
StringStyle_as_i32(style) ==
    CASE style = "Double" -> 100 [] style = "Single" -> 115 [] OTHER -> 108
CommentStyle_as_i32(style) ==
    CASE style = "Hash" -> 104 [] style = "Slash" -> 115 [] OTHER -> 108
\* `v as i32` of a bool
BoolAsI32(b) == IF b THEN 1 ELSE 0

-----------------------------------------------------------------------------
(* The heap of callback holders.  Box::into_raw(Box::new(h)) appends a live *)
(* cell and its index is the raw pointer; Box::from_raw(p) (dropped at      *)
(* once) releases cell p.  owner and slot record which Vm and which name    *)
(* (or the import slot) the cell was made for.                              *)

BoxNew(hp, holder, owner, slot) ==
    Append(hp, [state |-> "live", frees |-> 0, holder |-> holder,
                owner |-> owner, slot |-> slot])
BoxFree(hp, p) ==
    [hp EXCEPT ![p] = [@ EXCEPT !.state = "freed", !.frees = @ + 1]]
\* a registration that forgets the superseded holder
ReleaseOldLeaks(hp, old) == hp
\* a registration that releases the holder it has just boxed
ReleaseOldFreesNew(hp, old) == IF hp = <<>> THEN hp ELSE BoxFree(hp, Len(hp))
\* if let Some(old_holder) = old_holder { Box::from_raw(old_holder); }
ReleaseOld(hp, old) == IF old # 0 THEN BoxFree(hp, old) ELSE hp

ImportSlot == <<"<import>">>

-----------------------------------------------------------------------------
(* struct Vm and its methods *)

NoVm == [state |-> "unborn", inner |-> 0,
         native_callback_holders |-> EmptyMap, import_callback_holder |-> 0]

Live(v) == vms[v].state = "live"
CanCall == ~aborted /\ steps < MaxOps
Inner(v) == vms[v].inner

\* The record of a call: op, the Vm, its string arguments, the C API calls
\* it made, its result; for an evaluation also the interpreter's reply.
Call(op, v, strs, ffi, result, reply) ==
    [op |-> op, vm |-> v, strs |-> strs, ffi |-> ffi, result |-> result, reply |-> reply]
NoReply == [err |-> 0, out |-> <<>>, bridge |-> NoBridge, aborted |-> FALSE, T |-> ""]

\* A `?` on CString::new: the method returns Err(NulError) having done nothing.
ReturnNulError(op, v, strs) ==
    /\ last' = Call(op, v, strs, <<>>, NulError, NoReply)
    /\ steps' = steps + 1
    /\ UNCHANGED <<vms, heap, interp, aborted, bound>>

\* A method whose only effect is one C API call on self.inner.
Effect(op, v, strs, ffi, I) ==
    /\ interp' = [interp EXCEPT ![Inner(v)] = I]
    /\ last' = Call(op, v, strs, <<ffi>>, Ok(JNull), NoReply)
    /\ steps' = steps + 1
    /\ UNCHANGED <<vms, heap, aborted>>
Configure(op, v, strs, ffi, I) ==
    /\ Effect(op, v, strs, ffi, I)
    /\ UNCHANGED bound

\* Vm::new (Vm ids are taken in order)
New(v) ==
    /\ CanCall
    /\ vms[v].state = "unborn"
    /\ \A w \in VmIds : w < v => vms[w].state # "unborn"
    /\ vms' = [vms EXCEPT ![v] = [NoVm EXCEPT !.state = "live", !.inner = Len(interp) + 1]]
    /\ interp' = Append(interp, jsonnet_make)
    /\ last' = Call("new", v, <<>>, <<"jsonnet_make">>, Ok(JNull), NoReply)
    /\ steps' = steps + 1
    /\ UNCHANGED <<heap, aborted, bound>>

max_stack(v, n) ==
    /\ CanCall /\ Live(v)
    /\ Configure("max_stack", v, <<>>, "jsonnet_max_stack", jsonnet_max_stack(interp[Inner(v)], n))

\* the error flag read the wrong way round
EvaluateOutcomeFlipped(err, json_str, T) ==
    IF err # 0 THEN serde_json_from_str(json_str, T) ELSE GoJsonnetError(json_str)
\* if err == 0 { Ok(serde_json::from_str(&json_str)?) } else { Err(GoJsonnetError { message }) }
EvaluateOutcome(err, json_str, T) ==
    IF err = 0 THEN serde_json_from_str(json_str, T) ELSE GoJsonnetError(json_str)

\* Vm::evaluate_snippet::<T>.  pre is what the interpreter's success flag
\* holds when it enters a bridge.
evaluate_snippet(v, filename, code, T, pre) ==
    /\ CanCall /\ Live(v)
    /\ LET filename_cstr == CStringNew(filename)
           code_cstr == CStringNew(code)
       IN  IF ~filename_cstr.ok \/ ~code_cstr.ok
           THEN ReturnNulError("evaluate_snippet", v, <<filename, code>>)
           ELSE LET r == jsonnet_evaluate_snippet(interp[Inner(v)], heap,
                                                  filename_cstr.bytes, code_cstr.bytes, pre)
                    json_str == ToStringLossy(CStrFromPtr(r.out))
                IN  /\ aborted' = r.aborted
                    /\ last' = IF r.aborted
                               THEN Call("evaluate_snippet", v, <<filename, code>>,
                                         <<"jsonnet_evaluate_snippet">>, Abort, r)
                               ELSE Call("evaluate_snippet", v, <<filename, code>>,
                                         <<"jsonnet_evaluate_snippet", "jsonnet_realloc">>,
                                         EvaluateOutcome(r.err, json_str, T),
                                         [r EXCEPT !.T = T])
                    /\ steps' = steps + 1
                    /\ UNCHANGED <<vms, heap, interp, bound>>

\* Vm::native_callback
native_callback(v, name, params, callback) ==
    /\ CanCall /\ Live(v)
    /\ LET name_cstr == CStringNew(name)
           params_c == [i \in DOMAIN params |-> CStringNew(params[i])]
           strs == <<name>> \o params
       IN  IF ~name_cstr.ok \/ \E i \in DOMAIN params : ~params_c[i].ok
           THEN ReturnNulError("native_callback", v, strs)
           ELSE LET params_ptr == [i \in DOMAIN params |-> params_c[i].bytes] \o <<"NULL">>
                    holder == Len(heap) + 1
                    boxed == BoxNew(heap, NativeCallbackHolder(Inner(v), callback, Len(params)),
                                    v, name)
                    held == vms[v].native_callback_holders
                    old_holder == IF name \in DOMAIN held THEN held[name] ELSE 0
                IN  /\ vms' = [vms EXCEPT ![v].native_callback_holders = Put(held, name, holder)]
                    /\ heap' = ReleaseOld(boxed, old_holder)
                    /\ interp' = [interp EXCEPT ![Inner(v)] =
                                     jsonnet_native_callback(@, name_cstr.bytes, holder, params_ptr)]
                    /\ last' = Call("native_callback", v, strs, <<"jsonnet_native_callback">>,
                                    Ok(JNull), NoReply)
                    /\ steps' = steps + 1
                    /\ UNCHANGED <<aborted, bound>>

\* Vm::import_callback
import_callback(v, callback) ==
    /\ CanCall /\ Live(v)
    /\ LET holder == Len(heap) + 1
           boxed == BoxNew(heap, ImportCallbackHolder(Inner(v), callback), v, ImportSlot)
           old_holder == vms[v].import_callback_holder
       IN  /\ vms' = [vms EXCEPT ![v].import_callback_holder = holder]
           /\ heap' = ReleaseOld(boxed, old_holder)
           /\ interp' = [interp EXCEPT ![Inner(v)] = jsonnet_import_callback(@, holder)]
           /\ last' = Call("import_callback", v, <<>>, <<"jsonnet_import_callback">>,
                           Ok(JNull), NoReply)
           /\ steps' = steps + 1
           /\ UNCHANGED <<aborted, bound>>

\* History of a binding: its text, whether it is code, and what it replaced.
Binding(m, key, val, code) ==
    [val |-> val, code |-> code,
     prev |-> IF key \notin DOMAIN m THEN "none" ELSE IF m[key].code THEN "code" ELSE "var"]

\* ext_var bound through the code binder
ExtVarCallAsCode(I, key_c, val_c) == jsonnet_ext_code(I, key_c, val_c)
\* The C API call each key/value binder makes.
ExtVarCall(I, key_c, val_c) == jsonnet_ext_var(I, key_c, val_c)
ExtCodeCall(I, key_c, val_c) == jsonnet_ext_code(I, key_c, val_c)
TlaVarCall(I, key_c, val_c) == jsonnet_tla_var(I, key_c, val_c)
TlaCodeCall(I, key_c, val_c) == jsonnet_tla_code(I, key_c, val_c)

\* Vm::ext_var
ext_var(v, key, val) ==
    /\ CanCall /\ Live(v)
    /\ LET key_cstr == CStringNew(key)
           val_cstr == CStringNew(val)
       IN  IF ~key_cstr.ok \/ ~val_cstr.ok
           THEN ReturnNulError("ext_var", v, <<key, val>>)
           ELSE /\ Effect("ext_var", v, <<key, val>>, "jsonnet_ext_var",
                          ExtVarCall(interp[Inner(v)], key_cstr.bytes, val_cstr.bytes))
                /\ bound' = [bound EXCEPT ![v] = Put(@, key, Binding(bound[v], key, val, FALSE))]

\* Vm::ext_code
ext_code(v, key, val) ==
    /\ CanCall /\ Live(v)
    /\ LET key_cstr == CStringNew(key)
           val_cstr == CStringNew(val)
       IN  IF ~key_cstr.ok \/ ~val_cstr.ok
           THEN ReturnNulError("ext_code", v, <<key, val>>)
           ELSE /\ Effect("ext_code", v, <<key, val>>, "jsonnet_ext_code",
                          ExtCodeCall(interp[Inner(v)], key_cstr.bytes, val_cstr.bytes))
                /\ bound' = [bound EXCEPT ![v] = Put(@, key, Binding(bound[v], key, val, TRUE))]

\* Vm::tla_var
tla_var(v, key, val) ==
    /\ CanCall /\ Live(v)
    /\ LET key_cstr == CStringNew(key)
           val_cstr == CStringNew(val)
       IN  IF ~key_cstr.ok \/ ~val_cstr.ok
           THEN ReturnNulError("tla_var", v, <<key, val>>)
           ELSE Configure("tla_var", v, <<key, val>>, "jsonnet_tla_var",
                          TlaVarCall(interp[Inner(v)], key_cstr.bytes, val_cstr.bytes))

\* Vm::tla_code
tla_code(v, key, val) ==
    /\ CanCall /\ Live(v)
    /\ LET key_cstr == CStringNew(key)
           val_cstr == CStringNew(val)
       IN  IF ~key_cstr.ok \/ ~val_cstr.ok
           THEN ReturnNulError("tla_code", v, <<key, val>>)
           ELSE Configure("tla_code", v, <<key, val>>, "jsonnet_tla_code",
                          TlaCodeCall(interp[Inner(v)], key_cstr.bytes, val_cstr.bytes))

\* Vm::jpath_add
jpath_add(v, path) ==
    /\ CanCall /\ Live(v)
    /\ LET path_cstr == CStringNew(path)
       IN  IF ~path_cstr.ok
           THEN ReturnNulError("jpath_add", v, <<path>>)
           ELSE Configure("jpath_add", v, <<path>>, "jsonnet_jpath_add",
                          jsonnet_jpath_add(interp[Inner(v)], path_cstr.bytes))

\* Vm::fmt_indent .. Vm::fmt_sort_imports
fmt_indent(v, n) ==
    /\ CanCall /\ Live(v)
    /\ Configure("fmt_indent", v, <<>>, "jsonnet_fmt_indent",
                 jsonnet_fmt_indent(interp[Inner(v)], n))
fmt_max_blank_lines(v, n) ==
    /\ CanCall /\ Live(v)
    /\ Configure("fmt_max_blank_lines", v, <<>>, "jsonnet_fmt_max_blank_lines",
                 jsonnet_fmt_max_blank_lines(interp[Inner(v)], n))
fmt_string(v, style) ==
    /\ CanCall /\ Live(v)
    /\ Configure("fmt_string", v, <<>>, "jsonnet_fmt_string",
                 jsonnet_fmt_string(interp[Inner(v)], StringStyle_as_i32(style)))
\* fmt_comment written over the string-style setter
fmt_comment_sets_string(v, style) ==
    /\ CanCall /\ Live(v)
    /\ Configure("fmt_comment", v, <<>>, "jsonnet_fmt_string",
                 jsonnet_fmt_string(interp[Inner(v)], CommentStyle_as_i32(style)))
fmt_comment(v, style) ==
    /\ CanCall /\ Live(v)
    /\ Configure("fmt_comment", v, <<>>, "jsonnet_fmt_comment",
                 jsonnet_fmt_comment(interp[Inner(v)], CommentStyle_as_i32(style)))
fmt_pad_arrays(v, b) ==
    /\ CanCall /\ Live(v)
    /\ Configure("fmt_pad_arrays", v, <<>>, "jsonnet_fmt_pad_arrays",
                 jsonnet_fmt_pad_arrays(interp[Inner(v)], BoolAsI32(b)))
fmt_pad_objects(v, b) ==
    /\ CanCall /\ Live(v)
    /\ Configure("fmt_pad_objects", v, <<>>, "jsonnet_fmt_pad_objects",
                 jsonnet_fmt_pad_objects(interp[Inner(v)], BoolAsI32(b)))
fmt_pretty_field_names(v, b) ==
    /\ CanCall /\ Live(v)
    /\ Configure("fmt_pretty_field_names", v, <<>>, "jsonnet_fmt_pretty_field_names",
                 jsonnet_fmt_pretty_field_names(interp[Inner(v)], BoolAsI32(b)))
fmt_sort_imports(v, b) ==
    /\ CanCall /\ Live(v)
    /\ Configure("fmt_sort_imports", v, <<>>, "jsonnet_fmt_sort_imports",
                 jsonnet_fmt_sort_imports(interp[Inner(v)], BoolAsI32(b)))

\* Vm::fmt_snippet
fmt_snippet(v, filename, snippet) ==
    /\ CanCall /\ Live(v)
    /\ LET filename_cstr == CStringNew(filename)
           snippet_cstr == CStringNew(snippet)
       IN  IF ~filename_cstr.ok \/ ~snippet_cstr.ok
           THEN ReturnNulError("fmt_snippet", v, <<filename, snippet>>)
           ELSE LET r == jsonnet_fmt_snippet(interp[Inner(v)], filename_cstr.bytes,
                                             snippet_cstr.bytes)
                    s == ToStringLossy(CStrFromPtr(r.out))
                IN  /\ last' = Call("fmt_snippet", v, <<filename, snippet>>,
                                    <<"jsonnet_fmt_snippet", "jsonnet_realloc">>,
                                    IF r.err = 0 THEN Ok(JStr(s)) ELSE GoJsonnetError(s), r)
                    /\ steps' = steps + 1
                    /\ UNCHANGED <<vms, heap, interp, aborted, bound>>

\* impl Drop for Vm: every holder of the map, then the import holder, then
\* the interpreter.
RECURSIVE FreeAll(_, _)
FreeAll(hp, ptrs) ==
    IF ptrs = {} THEN hp
    ELSE LET p == CHOOSE q \in ptrs : TRUE IN FreeAll(BoxFree(hp, p), ptrs \ {p})
Range(f) == {f[x] : x \in DOMAIN f}
\* The calls drop makes, in order: one Box::from_raw per holder of the map,
\* one for the import holder if there is one, then jsonnet_destroy.
DropCalls(v) ==
    [i \in 1..(Cardinality(Range(vms[v].native_callback_holders))
                + (IF vms[v].import_callback_holder # 0 THEN 1 ELSE 0)) |-> "Box::from_raw"]
    \o <<"jsonnet_destroy">>
\* a drop that forgets the import holder
drop_keeps_import_holder(v) ==
    /\ CanCall /\ Live(v)
    /\ heap' = FreeAll(heap, Range(vms[v].native_callback_holders))
    /\ interp' = [interp EXCEPT ![Inner(v)] = jsonnet_destroy(@)]
    /\ vms' = [vms EXCEPT ![v] = [@ EXCEPT !.state = "dropped",
                                            !.native_callback_holders = EmptyMap]]
    /\ last' = Call("drop", v, <<>>, DropCalls(v), Ok(JNull), NoReply)
    /\ steps' = steps + 1
    /\ UNCHANGED <<aborted, bound>>
drop(v) ==
    /\ CanCall /\ Live(v)
    /\ heap' = ReleaseOld(FreeAll(heap, Range(vms[v].native_callback_holders)),
                          vms[v].import_callback_holder)
    /\ interp' = [interp EXCEPT ![Inner(v)] = jsonnet_destroy(@)]
    /\ vms' = [vms EXCEPT ![v] = [@ EXCEPT !.state = "dropped",
                                            !.native_callback_holders = EmptyMap]]
    /\ last' = Call("drop", v, <<>>, DropCalls(v), Ok(JNull), NoReply)
    /\ steps' = steps + 1
    /\ UNCHANGED <<aborted, bound>>

-----------------------------------------------------------------------------
(* Spec: any sequence of calls on up to MaxVms Vms.                          *)

Filenames == {<<"a.jsonnet">>, <<"a", NUL, ".jsonnet">>}
Snippets ==
    {<<"{foo: bar}">>, <<"1 + 2">>, <<"1 + ", NUL, "2">>,
     <<"std.extVar('", "v", "')">>,
     <<"std.native('", "hello", "')(", "'world'", ")">>,
     <<"std.native('", "hello", "')(", "[1, 2]", ")">>,
     <<"std.native('", "hello", "')(", "'world'", ",", "true", ")">>,
     <<"import '", "foo.libsonnet", "'">>}
FmtSnippets == {<<"{x:1}">>, <<"{x:", NUL, "1}">>, <<"{x:">>}
\* key/value pairs for ext_var and ext_code, and for tla_var and tla_code
ExtBindings ==
    {<< <<"v">>, <<"true">> >>, << <<"w">>, <<"true">> >>,
     << <<"v", NUL>>, <<"true">> >>, << <<"v">>, <<"tr", NUL, "ue">> >>}
TlaBindings ==
    {<< <<"v">>, <<"true">> >>, << <<"w">>, <<"true">> >>,
     << <<"v", NUL>>, <<"true">> >>, << <<"v">>, <<"tr", NUL, "ue">> >>}
Paths == {<<"/path/to/libsonnets">>, <<"/path", NUL>>}
Names == {<<"hello">>, <<"he", NUL, "llo">>}
ParamLists == {<< <<"arg1">> >>, << <<"a">>, <<"b">> >>, << <<"arg1">>, <<"b", NUL>> >>}
HostNatives == {"hello", "none"}
HostImports == {"lib", "fail"}

\* The state after the first Vm::new().
Init ==
    /\ vms = [v \in VmIds |-> IF v = 1 THEN [NoVm EXCEPT !.state = "live", !.inner = 1]
                                       ELSE NoVm]
    /\ heap = <<>>
    /\ interp = <<jsonnet_make>>
    /\ last = Call("new", 1, <<>>, <<"jsonnet_make">>, Ok(JNull), NoReply)
    /\ aborted = FALSE
    /\ steps = 0
    /\ bound = [v \in VmIds |-> EmptyMap]

Next ==
    \E v \in VmIds :
        \/ New(v)
        \/ drop(v)
        \/ \E n \in {10} : max_stack(v, n)
        \/ \E f \in Filenames, c \in Snippets, T \in DeserTypes, pre \in FlagValues :
              evaluate_snippet(v, f, c, T, pre)
        \/ \E n \in Names, ps \in ParamLists, cb \in HostNatives : native_callback(v, n, ps, cb)
        \/ \E cb \in HostImports : import_callback(v, cb)
        \/ \E kv \in ExtBindings : ext_var(v, kv[1], kv[2])
        \/ \E kv \in ExtBindings : ext_code(v, kv[1], kv[2])
        \/ \E kv \in TlaBindings : tla_var(v, kv[1], kv[2])
        \/ \E kv \in TlaBindings : tla_code(v, kv[1], kv[2])
        \/ \E p \in Paths : jpath_add(v, p)
        \/ \E n \in {8} : fmt_indent(v, n)
        \/ \E n \in {1} : fmt_max_blank_lines(v, n)
        \/ \E s \in {"Double"} : fmt_string(v, s)
        \/ \E s \in {"Hash"} : fmt_comment(v, s)
        \/ \E b \in {TRUE} : fmt_pad_arrays(v, b)
        \/ \E b \in {FALSE} : fmt_pad_objects(v, b)
        \/ \E b \in {FALSE} : fmt_pretty_field_names(v, b)
        \/ \E b \in {FALSE} : fmt_sort_imports(v, b)
        \/ \E f \in Filenames, c \in FmtSnippets : fmt_snippet(v, f, c)

Spec == Init /\ [][Next]_vars

-----------------------------------------------------------------------------
(* Claims about the Vm *)

IsPrefix(p, s) == Len(p) <= Len(s) /\ SubSeq(s, 1, Len(p)) = p
Contains(s, c) == \E i \in DOMAIN s : s[i] = c

\* The last call was an evaluate_snippet whose strings hold no 0 byte and
\* to which the interpreter replied.
Evaluated ==
    /\ last.op = "evaluate_snippet"
    /\ \A i \in DOMAIN last.strs : ~HasNul(last.strs[i])
    /\ ~last.reply.aborted

C2_NativeCallInvokesCallback ==
    (last.op = "evaluate_snippet" /\ last.reply.bridge.kind = "native") =>
        LET b == last.reply.bridge
        IN  /\ b.out.invoked
            /\ Len(b.out.argv) = heap[b.ctx].holder.argc
            /\ b.out.argv = b.argv_c
            /\ (b.out.returned.some =>
                    /\ last.reply.err = 0
                    /\ ParseJson(CStrFromPtr(last.reply.out)) = Value(b.out.returned.val))

\* The cells made for slot (a native name, or the import slot) of Vm v.
CellsFor(v, slot) == {p \in DOMAIN heap : heap[p].owner = v /\ heap[p].slot = slot}
Newest(cells) == CHOOSE p \in cells : \A q \in cells : q <= p
HeldAt(v, slot) ==
    IF slot = ImportSlot THEN vms[v].import_callback_holder
    ELSE IF slot \in DOMAIN vms[v].native_callback_holders
         THEN vms[v].native_callback_holders[slot] ELSE 0
Slots == {heap[p].slot : p \in DOMAIN heap}

\* C3: after any registrations on a Vm, each registered native name and the
\* import slot hold exactly one live holder, the one made by the most recent
\* registration for it; every superseded holder has been released exactly
\* once and none stays allocated.
C3_OneLiveHolderPerSlot ==
    \A v \in VmIds : Live(v) =>
        /\ \A slot \in Slots : CellsFor(v, slot) # {} =>
              LET newest == Newest(CellsFor(v, slot))
              IN  /\ HeldAt(v, slot) = newest
                  /\ heap[newest].state = "live" /\ heap[newest].frees = 0
                  /\ \A p \in CellsFor(v, slot) \ {newest} :
                        heap[p].state = "freed" /\ heap[p].frees = 1
        /\ \A n \in DOMAIN vms[v].native_callback_holders : CellsFor(v, n) # {}
        /\ (vms[v].import_callback_holder # 0 => CellsFor(v, ImportSlot) # {})

C3_Witness ==
    \E v \in VmIds :
        /\ Live(v)
        /\ Cardinality(CellsFor(v, <<"hello">>)) >= 2
        /\ Cardinality(CellsFor(v, ImportSlot)) >= 1

\* The last call evaluated std.extVar('k').
EvaluatedExtVar ==
    /\ Evaluated
    /\ Len(last.strs[2]) = 3
    /\ last.strs[2][1] = "std.extVar('"
    /\ <<last.strs[2][2]>> \in DOMAIN bound[last.vm]
AsT(v, T) == IF Fits(v, T) THEN Ok(v) ELSE SerdeError

\* C7: after ext_var(k, v), std.extVar(k) is the JSON string v itself; after
\* ext_code(k, v) it is the value of v evaluated as code; for one key the
\* later of the two bindings is the one observed.
C7_ExtVarObserved ==
    EvaluatedExtVar =>
        LET b == bound[last.vm][<<last.strs[2][2]>>]
        IN  IF ~b.code THEN last.result = AsT(JStr(b.val), last.reply.T)
            ELSE IF JsonnetExpr(b.val).ok
                 THEN last.result = AsT(JsonnetExpr(b.val).val, last.reply.T)
                 ELSE last.result.kind = "GoJsonnetError"

C7_Witness ==
    /\ EvaluatedExtVar
    /\ bound[last.vm][<<last.strs[2][2]>>].code
    /\ bound[last.vm][<<last.strs[2][2]>>].prev = "var"
    /\ last.result = Ok(JBool(TRUE))

\* The holders a live Vm holds.
HeldBy(v) ==
    IF ~Live(v) THEN {}
    ELSE Range(vms[v].native_callback_holders)
         \cup (IF vms[v].import_callback_holder # 0 THEN {vms[v].import_callback_holder} ELSE {})

C8_Owned ==
    /\ \A v, w \in VmIds : (v # w /\ Inner(v) # 0 /\ Inner(w) # 0) => Inner(v) # Inner(w)
    /\ \A p \in DOMAIN heap : heap[p].state = "live" =>
          /\ Cardinality({v \in VmIds : p \in HeldBy(v)}) = 1
          /\ \A v \in VmIds : p \in HeldBy(v) => heap[p].holder.vm = Inner(v)
    /\ (last.op = "evaluate_snippet" /\ last.reply.bridge.kind # "none") =>
          /\ last.reply.bridge.ctx \in HeldBy(last.vm)
          /\ last.reply.bridge.out.vm = Inner(last.vm)

C8_Step ==
    \A w \in VmIds : w # last'.vm =>
        /\ vms'[w] = vms[w]
        /\ bound'[w] = bound[w]
        /\ (Inner(w) # 0 => interp'[Inner(w)] = interp[Inner(w)])
        /\ \A p \in DOMAIN heap : heap[p].owner = w => heap'[p] = heap[p]

\* C8: every operation on one Vm leaves every other Vm's interpreter,
\* holders and configuration unchanged; each live holder is held by exactly
\* one Vm and carries that Vm's interpreter handle, and a bridge call made
\* for a Vm uses a holder of that Vm and that Vm's interpreter.
C8_Isolation == [](C8_Owned) /\ [][C8_Step]_vars

C8_Witness ==
    /\ Live(1) /\ Live(2)
    /\ HeldBy(2) # {}
    /\ last.vm = 1
    /\ last.op \in {"evaluate_snippet", "native_callback", "ext_var", "drop"}

OptionNames ==
    {"max_stack", "ext", "tla", "jpath", "fmt_indent", "fmt_max_blank_lines", "fmt_string",
     "fmt_comment", "fmt_pad_arrays", "fmt_pad_objects", "fmt_pretty_field_names",
     "fmt_sort_imports"}
Option(I, o) ==
    CASE o = "max_stack" -> I.max_stack
      [] o = "ext" -> I.ext
      [] o = "tla" -> I.tla
      [] o = "jpath" -> I.jpath
      [] o = "fmt_indent" -> I.fmt.indent
      [] o = "fmt_max_blank_lines" -> I.fmt.max_blank_lines
      [] o = "fmt_string" -> I.fmt.string
      [] o = "fmt_comment" -> I.fmt.comment
      [] o = "fmt_pad_arrays" -> I.fmt.pad_arrays
      [] o = "fmt_pad_objects" -> I.fmt.pad_objects
      [] o = "fmt_pretty_field_names" -> I.fmt.pretty_field_names
      [] OTHER -> I.fmt.sort_imports
\* The option a setter sets: the external-variable table for ext_var and
\* ext_code, the top-level-argument table for tla_var and tla_code, the
\* search path for jpath_add, else the option of the setter's name.
OwnOption(op) ==
    CASE op \in {"ext_var", "ext_code"} -> "ext"
      [] op \in {"tla_var", "tla_code"} -> "tla"
      [] op = "jpath_add" -> "jpath"
      [] OTHER -> op
Setters == {"ext_var", "ext_code", "tla_var", "tla_code", "jpath_add"} \cup (OptionNames \ {"ext", "tla", "jpath"})
OtherKeysKept(m, m2, key) ==
    \A k \in DOMAIN m : k # key => (k \in DOMAIN m2 /\ m2[k] = m[k])

C9_Step ==
    (last'.op \in Setters \cup {"evaluate_snippet", "fmt_snippet"}) =>
        LET h == Inner(last'.vm)
        IN  /\ \A o \in OptionNames \ {OwnOption(last'.op)} :
                  Option(interp'[h], o) = Option(interp[h], o)
            /\ (last'.op \in {"ext_var", "ext_code"} /\ last'.result.kind = "Ok" =>
                  OtherKeysKept(interp[h].ext, interp'[h].ext, last'.strs[1]))
            /\ (last'.op \in {"tla_var", "tla_code"} /\ last'.result.kind = "Ok" =>
                  OtherKeysKept(interp[h].tla, interp'[h].tla, last'.strs[1]))
            /\ interp'[h].natives = interp[h].natives
            /\ interp'[h].import_ctx = interp[h].import_ctx
            /\ vms' = vms
            /\ heap' = heap

\* C9: each setter changes only its own option and leaves every other option
\* and every callback registration unchanged, in any order of calls;
\* evaluate_snippet and fmt_snippet change no option and no registration.
C9_SettersIndependent == [][C9_Step]_vars

C9_Witness ==
    /\ last.op = "fmt_comment"
    /\ interp[Inner(last.vm)].fmt.comment = 104
    /\ interp[Inner(last.vm)].fmt.string = 100
    /\ HeldBy(last.vm) # {}

StringOps ==
    {"evaluate_snippet", "fmt_snippet", "native_callback", "ext_var", "ext_code",
     "tla_var", "tla_code", "jpath_add"}

C10_Step ==
    (last'.op \in StringOps /\ \E i \in DOMAIN last'.strs : HasNul(last'.strs[i])) =>
        /\ last'.result = NulError
        /\ last'.ffi = <<>>
        /\ UNCHANGED <<vms, heap, interp>>

\* C10: an operation taking strings returns Err(NulError) when any of them
\* holds a NUL byte, calls nothing in the interpreter and leaves the Vm as it
\* was; native_callback then allocates no holder and a holder registered
\* before under the name stays live and registered.
C10_NulRejected == [][C10_Step]_vars

C10_Witness ==
    /\ last.op = "native_callback"
    /\ last.result = NulError
    /\ last.strs[1] = <<"hello">>
    /\ HeldAt(last.vm, <<"hello">>) # 0
    /\ heap[HeldAt(last.vm, <<"hello">>)].state = "live"
    /\ Len(heap) = 1

\* Cell p is a live holder of the given kind made for Vm v.
LiveHolderOf(p, v, kind) ==
    /\ p \in DOMAIN heap
    /\ heap[p].state = "live"
    /\ heap[p].owner = v
    /\ heap[p].holder.kind = kind

\* C11: whenever evaluate_snippet can run on a Vm, every callback context
\* its interpreter holds (one per registered native name, and the import
\* context) is a live holder that the Vm holds under that name (slot); and a
\* bridge invoked by an evaluation was given a context that is live.
C11_ContextsLive ==
    /\ \A v \in VmIds : Live(v) =>
          LET I == interp[Inner(v)]
          IN  /\ \A n \in DOMAIN I.natives :
                    /\ LiveHolderOf(I.natives[n].ctx, v, "native")
                    /\ HeldAt(v, n) = I.natives[n].ctx
              /\ (I.import_ctx # 0 =>
                    /\ LiveHolderOf(I.import_ctx, v, "import")
                    /\ HeldAt(v, ImportSlot) = I.import_ctx)
    /\ (last.op = "evaluate_snippet" /\ last.reply.bridge.kind # "none" =>
          /\ last.reply.bridge.live
          /\ LiveHolderOf(last.reply.bridge.ctx, last.vm, last.reply.bridge.kind))

C11_Witness ==
    /\ last.op = "evaluate_snippet"
    /\ last.reply.bridge.kind = "native"
    /\ Cardinality(CellsFor(last.vm, <<"hello">>)) >= 2
    /\ last.reply.bridge.ctx = Newest(CellsFor(last.vm, <<"hello">>))

\* The cells made for Vm v, and those of them still allocated.
CellsOf(v) == {p \in DOMAIN heap : heap[p].owner = v}
LiveCellsOf(v) == {p \in CellsOf(v) : heap[p].state = "live"}

\* No cell is ever released twice, and a dropped Vm has none left allocated
\* and its interpreter destroyed.
C12_Released ==
    /\ \A p \in DOMAIN heap :
          /\ heap[p].frees <= 1
          /\ (heap[p].state = "freed" <=> heap[p].frees = 1)
    /\ \A v \in VmIds : vms[v].state = "dropped" =>
          /\ LiveCellsOf(v) = {}
          /\ ~interp[Inner(v)].alive

C12_Step ==
    last'.op = "drop" =>
        LET v == last'.vm
            calls == last'.ffi
            n == Len(calls)
        IN  /\ Len(heap') = Len(heap)
            /\ \A p \in CellsOf(v) :
                  /\ heap'[p].state = "freed"
                  /\ heap'[p].frees = 1
                  /\ (p \in LiveCellsOf(v) <=> heap[p].frees = 0)
            /\ \A p \in DOMAIN heap : heap[p].owner # v => heap'[p] = heap[p]
            /\ LiveCellsOf(v) = HeldBy(v)
            /\ interp[Inner(v)].alive /\ ~interp'[Inner(v)].alive
            /\ n = Cardinality(LiveCellsOf(v)) + 1
            /\ calls[n] = "jsonnet_destroy"
            /\ \A i \in 1..(n - 1) : calls[i] = "Box::from_raw"

\* C12: dropping a Vm releases every holder it still holds, native and
\* import, exactly once, then destroys the interpreter, once; a holder that a
\* later registration superseded is not released again, and no holder of the
\* Vm stays allocated.
C12_DropReleasesAll == [](C12_Released) /\ [][C12_Step]_vars

C12_Witness ==
    /\ last.op = "drop"
    /\ Cardinality(CellsFor(last.vm, <<"hello">>)) >= 2
    /\ \A p \in CellsOf(last.vm) : heap[p].state = "freed" /\ heap[p].frees = 1

-----------------------------------------------------------------------------
(* SpecBridge: the two bridges as functions of their inputs.  Each step is  *)
(* one invocation by the interpreter, with a holder, arguments and flag     *)
(* contents drawn from the sets below.                                      *)

\* The values an interpreter can pass as an argument: one of every JSON kind.
ArgValues ==
    {JNull, JBool(TRUE), JBool(FALSE), JNum(3), JStr(<<"world">>),
     JArr(<<JNum(1), JNum(2)>>), JObj(<<"a">>, JNum(1))}

ArgVectors == UNION {[1..n -> ArgValues] : n \in 0..MaxArgs}

NoCall == [op |-> "none"]

InitBridge ==
    /\ vms = [v \in VmIds |-> NoVm]
    /\ heap = <<>>
    /\ interp = <<>>
    /\ last = NoCall
    /\ aborted = FALSE
    /\ steps = 0
    /\ bound = [v \in VmIds |-> EmptyMap]

NativeBridgeCall ==
    /\ ~aborted
    /\ \E callback \in NativeCallbacks, argv_c \in ArgVectors, pre \in FlagValues, h \in VmIds :
          LET holder == NativeCallbackHolder(h, callback, Len(argv_c))
              out == native_callback_bridge(holder, argv_c, pre)
          IN  /\ last' = [op |-> "native_callback_bridge", holder |-> holder,
                          argv_c |-> argv_c, pre |-> pre, out |-> out]
              /\ aborted' = out.aborted
    /\ UNCHANGED <<vms, heap, interp, steps, bound>>

ImportBridgeCall ==
    /\ ~aborted
    /\ \E callback \in ImportCallbacks, rel \in {<<"foo.libsonnet">>, <<"bar.libsonnet">>},
          pre \in FlagValues, h \in VmIds :
          LET holder == ImportCallbackHolder(h, callback)
              pre_found == <<>>
              out == import_callback_bridge(holder, to_jsonnet_str(<<"dir/">>),
                                            to_jsonnet_str(rel), pre, pre_found)
          IN  /\ last' = [op |-> "import_callback_bridge", holder |-> holder,
                          rel |-> rel, pre |-> pre, pre_found |-> pre_found, out |-> out]
              /\ aborted' = FALSE
    /\ UNCHANGED <<vms, heap, interp, steps, bound>>

NextBridge == NativeBridgeCall \/ ImportBridgeCall

SpecBridge == InitBridge /\ [][NextBridge]_vars

-----------------------------------------------------------------------------
(* Claims about the bridges *)

\* C4: every invocation of the native-callback bridge reports its outcome in
\* the success flag: 1 and the converted value when the host callback returns
\* a value, 0 when it returns none, whatever the flag held on entry.
C4_FlagReportsOutcome ==
    (last.op = "native_callback_bridge" /\ last.out.invoked) =>
        IF last.out.returned.some
        THEN /\ last.out.success = 1
             /\ (~last.out.aborted =>
                    last.out.ret = from_serde_json_value(last.out.returned.val).val)
        ELSE last.out.success = 0

\* C5: for an argument of any JSON kind the bridge converts it to the host
\* value of the same kind and content and then invokes the callback; no
\* argument kind aborts the process.
C5_EveryArgumentKindConverted ==
    last.op = "native_callback_bridge" =>
        /\ last.out.invoked
        /\ last.out.argv = last.argv_c

\* C6: the import-callback bridge on Ok(found_here, content) sets the flag to
\* 1, writes found_here and returns content; on Err(msg) it sets the flag to
\* 0, leaves found_here unwritten and returns msg verbatim.  What a char*
\* carries is what its reader finds before the terminator.
C6_ImportBridgeOutputs ==
    last.op = "import_callback_bridge" =>
        IF last.out.returned.ok
        THEN /\ last.out.success = 1
             /\ CStrFromPtr(last.out.found_here) = last.out.returned.found_here
             /\ CStrFromPtr(last.out.ret) = last.out.returned.content
        ELSE /\ last.out.success = 0
             /\ last.out.found_here = last.pre_found
             /\ CStrFromPtr(last.out.ret) = last.out.returned.err

====
